---- MODULE Spec2Model ----
(***************************************************************************)
(* A model of the authorization core of nestjs-permissions:                *)
(*   PermissionService  (src/src/services/permission.service.ts, both      *)
(*                       revisions kept in the file),                      *)
(*   PermissionsGuard   (src/src/guards/permissions.guard.ts, the          *)
(*                       binding-driven guard, and src/unnamed/part_012,   *)
(*                       the decorator-driven guard),                      *)
(*   AuditService.logPermissionCheck (src/src/services/audit.service.ts),  *)
(*   RoleHierarchyService (src/src/services/role-hierarchy.service.ts).    *)
(*                                                                         *)
(* The store (user_permissions, router_permissions, permissions) is a set  *)
(* of rows; a query is the set of rows its WHERE clause selects.  Arrays   *)
(* returned by the store are modelled as sets: the code only tests         *)
(* membership in them (some / every / includes).                           *)
(***************************************************************************)
EXTENDS Integers, Sequences, FiniteSets, TLC

\* ------------------------------------------------------------------ bounds
MaxGrants == 2          \* rows of user_permissions
MaxBindings == 2        \* rows of router_permissions
MaxTicks == 2           \* clock steps taken in a behaviour
MaxCalls == 3           \* getUserPermissions calls kept in the call log

\* Date.now() advances in steps of TickMs milliseconds.
TickMs == 500
MaxPending == 2

\* ------------------------------------------------------------- the domains
Users == {"u1"}
NoUser == "anonymous"           \* request.user is undefined
\* The users the permission cache can hold an entry for.
CacheUsers == {"u1", "u2"}
PermIds == {"p1", "p2", "p3"}
NoExpiry == -1                  \* expiresAt is NULL

\* The permissions table: id -> name (name is unique).
PermissionName(id) ==
  CASE id = "p1" -> "a"
    [] id = "p2" -> "b"
    [] OTHER     -> "admin"

\* up.permission of a grant row, as getUserPermissions maps it.
PermissionOf(id) == [id |-> id, name |-> PermissionName(id)]

PublicRoute == "/auth/login"
ProtectedRoute == "/reports"
Routes == {PublicRoute, ProtectedRoute}

\* request.method as Node delivers it.
RequestMethods == {"GET"}
\* router_permissions.method: an HttpMethod, or the lower-case spelling.
BindingMethods == {"GET", "get", "*"}

Strategies == {"whitelist", "blacklist"}

GrantRows ==
  [userId : Users, permissionId : PermIds, isActive : BOOLEAN,
   expiresAt : {NoExpiry, TickMs}]

\* Active rows for every spelling of the method and two permissions; inactive
\* rows for one permission under the verb's two spellings.
BindingRows ==
  {b \in [route : {ProtectedRoute}, method : BindingMethods,
           permissionId : {"p1", "p2"}, isActive : BOOLEAN] :
     ~b.isActive => (b.permissionId = "p1" /\ b.method # "*")}

NoEntry == [permissions |-> {}, timestamp |-> -1]

VARIABLES
  grants,            \* user_permissions rows
  bindings,          \* router_permissions rows
  config,            \* ConfigService.getConfig()
  now,               \* Date.now()
  permissionCache,   \* PermissionService.permissionCache
  lastCall,          \* the last call: its arguments, result and store traffic
  callLog,           \* the calls of the permission cache made so far
  rejecting,         \* the repositories whose calls reject
  permissionRows,    \* permissions rows named after a role
  roleTree,          \* RoleHierarchyService.roleTree: <<>> is null
  rolePermissions,   \* RoleHierarchyService.rolePermissions
  roleCall,          \* the last call of RoleHierarchyService
  building,          \* the buildRoleTree call in flight
  inheriting,        \* the getInheritedPermissions call in flight: the ids
                     \* it collected from the tree before awaiting findByIds
  origin,            \* history: whether a call that started after the last
                     \* clearCache installed a tree, whether the call in
                     \* flight started before it, the roles it cached
  pending,           \* the getUserPermissions calls in flight
  decisionCache,     \* PermissionService.cache
  provenance         \* history: the calls answered before an invalidation
                     \* of their user, the users and keys whose entry is
                     \* from before one, when a user's grants last changed

vars ==
  <<grants, bindings, config, now, permissionCache, lastCall, callLog,
    rejecting, permissionRows, roleTree, rolePermissions, roleCall,
    building, inheriting, origin, pending, decisionCache, provenance>>

\* What RoleHierarchyService owns and reads.
hierarchyVars ==
  <<permissionRows, roleTree, rolePermissions, roleCall, building,
    inheriting, origin>>

\* The calls of PermissionService in flight, and the cache of hasPermission.
asyncVars == <<pending, decisionCache, provenance>>

\* A repository call is awaited; when the repository rejects, the await
\* throws and nothing after it runs.
Repositories == {"user_permissions", "router_permissions", "audit_logs"}

Rejects(repository) == repository \in rejecting

\* ---------------------------------------------------------- store queries
\* userPermissionRepository.find({ where: { userId }, relations: ['permission'] })
\* mapped to Permission objects: every grant row of the user, joined to its
\* permission.
FindByUserId(userId) ==
  {PermissionOf(g.permissionId) : g \in {x \in grants : x.userId = userId}}

\* createQueryBuilder('up') ... where user_id = :userId and is_active = true
ActiveGrantIds(userId) ==
  {g.permissionId : g \in {x \in grants : x.userId = userId /\ x.isActive}}

\* createQueryBuilder('rp') ... where route = :route and method = :method
\* and is_active = true.  The comparison is that of the default database
\* (postgres): two strings are equal when they are the same string, so 'get'
\* does not select a row stored as 'GET', and no verb selects a '*' row.
FindRouterPermissions(route, method) ==
  {b \in bindings : b.route = route /\ b.method = method /\ b.isActive}

\* String.prototype.toLowerCase on an HTTP verb.
ToLowerCase(method) ==
  CASE method = "GET" -> "get"
    [] OTHER          -> method

\* ------------------------------------------------------------ pure pieces
IsPublic(route) == route \in config.publicRoutes

\* routerPermissions.every(rp => userPermissions.some(up => up.permission_id
\* === rp.permission_id))
HasEvery(routerPermissions, heldIds) ==
  \A rp \in routerPermissions : rp.permissionId \in heldIds

\* requiredPermissions.some / every (permission => userPermissions.some(p =>
\* p.name === permission))
MatchNamesById(required, strategy, userPermissions) ==
  IF strategy = "OR"
  THEN \E permission \in required : \E p \in userPermissions : p.id = permission
  ELSE \A permission \in required : \E p \in userPermissions : p.id = permission

MatchNames(required, strategy, userPermissions) ==
  IF strategy = "OR"
  THEN \E permission \in required : \E p \in userPermissions : p.name = permission
  ELSE \A permission \in required : \E p \in userPermissions : p.name = permission

\* cached && Date.now() - cached.timestamp < config.security.cacheTimeout * 1000
CacheHitInclusive(cache, userId) ==
  /\ cache[userId] # NoEntry
  /\ now - cache[userId].timestamp <= config.cacheTimeout * 1000

CacheHitZeroIsForever(cache, userId) ==
  /\ cache[userId] # NoEntry
  /\ \/ config.cacheTimeout = 0
     \/ now - cache[userId].timestamp < config.cacheTimeout * 1000

CacheHit(cache, userId) ==
  /\ cache[userId] # NoEntry
  /\ now - cache[userId].timestamp < config.cacheTimeout * 1000

\* getUserPermissions as a function of the cache it finds: the error it
\* throws, the list it returns, the cache it leaves, and the store reads it
\* issues.  The find is awaited before permissionCache.set: a rejected find
\* leaves the method there.
GupErrorSwallowed(cache, userId) == "none"

GupError(cache, userId) ==
  IF CacheHit(cache, userId) THEN "none"
  ELSE IF Rejects("user_permissions") THEN "StoreError"
  ELSE "none"

GupPermissions(cache, userId) ==
  IF CacheHit(cache, userId) THEN cache[userId].permissions
  ELSE IF Rejects("user_permissions") THEN {}
  ELSE FindByUserId(userId)

GupCache(cache, userId) ==
  IF CacheHit(cache, userId) \/ Rejects("user_permissions") THEN cache
  ELSE [cache EXCEPT ![userId] =
          [permissions |-> FindByUserId(userId), timestamp |-> now]]

GupReads(cache, userId) == IF CacheHit(cache, userId) THEN 0 ELSE 1

\* permissionCache.delete(userId) and permissionCache.clear().
DeleteKeepsEntry(cache, userId) == cache

Delete(cache, userId) == [cache EXCEPT ![userId] = NoEntry]

Clear(cache) == [u \in DOMAIN cache |-> NoEntry]

\* AuditService.logPermissionCheck: the rows it saves, and whether the save
\* it awaits rejects.
LogPermissionCheck(userId, route, result, metadata) ==
  IF ~config.enableAuditLog THEN <<>>
  ELSE << [userId |-> userId, action |-> "check", target |-> route,
           result |-> result, metadata |-> metadata] >>

LogPermissionCheckRejects == config.enableAuditLog /\ Rejects("audit_logs")

\* ---- the calls of PermissionService in flight
\* At most this many getUserPermissions calls await their find at a time.
Slots == 1..MaxPending

\* A getUserPermissions call in flight: the user, when it started, and the
\* list its find resolved with.
NoPending == [phase |-> "none", userId |-> NoUser, rows |-> {}, startedAt |-> 0]

\* `permission:${userId}:${route}:${method}`
CacheKey(userId, route, method) ==
  "permission:" \o userId \o ":" \o route \o ":" \o method

\* The history once the entries of these users are dropped: the calls and
\* entries overtaken, and the keys of the decisions cached for the users.
Invalidated(users) ==
  [provenance EXCEPT
     !.overtaken = @ \cup {slot \in Slots : /\ pending[slot].phase = "answered"
                                            /\ pending[slot].userId \in users},
     !.staleUsers = @ \ users,
     !.staleKeys =
       @ \cup ({CacheKey(u, r, m) :
                  u \in users, r \in Routes, m \in RequestMethods}
                \cap DOMAIN decisionCache)]

\* --------------------------------------------------------------- the calls
\* What a call leaves behind for the caller and the call-counting store.
\* error is "none" when the call returned; a call that threw has no result.
Call(op, svc, route, method, userId, required, strategy, fallback, error, result, permissions, bindingReads, grantReads, cacheAccess, audits) ==
  [op |-> op, svc |-> svc, route |-> route, method |-> method,
   userId |-> userId, required |-> required, strategy |-> strategy,
   fallback |-> fallback, error |-> error, result |-> result,
   permissions |-> permissions, bindingReads |-> bindingReads,
   grantReads |-> grantReads, cacheAccess |-> cacheAccess,
   audits |-> audits, at |-> now]

\* No call is outstanding: the caller has taken the last result.
IdleCall ==
  [Call("none", 0, "", "", NoUser, {}, "none", "deny", "none", FALSE, {}, 0,
        0, FALSE, <<>>) EXCEPT !.at = 0]

Idle == lastCall = IdleCall

\* What a call of checkRoutePermission gives back, and the cache it leaves.
Outcome(result, bindingReads, grantReads, cacheAccess, audits, cache) ==
  [error |-> "none", result |-> result, bindingReads |-> bindingReads,
   grantReads |-> grantReads, cacheAccess |-> cacheAccess,
   audits |-> audits, cache |-> cache]

\* The call threw: an awaited repository call rejected.  No row was saved.
Throws(error, bindingReads, grantReads, cacheAccess, cache) ==
  [error |-> error, result |-> FALSE, bindingReads |-> bindingReads,
   grantReads |-> grantReads, cacheAccess |-> cacheAccess,
   audits |-> <<>>, cache |-> cache]

\* PermissionService.checkRoutePermission, first revision: the user's grants
\* are queried directly (is_active = true) and the check is audited.
RoutePermissionDirect(cache, route, method, userId) ==
  LET routerPermissions == FindRouterPermissions(route, method)
      userPermissions == ActiveGrantIds(userId)
      hasPermissions == HasEvery(routerPermissions, userPermissions)
  IN IF IsPublic(route)
     THEN Outcome(TRUE, 0, 0, FALSE, <<>>, cache)
     ELSE IF Rejects("router_permissions")
     THEN Throws("StoreError", 1, 0, FALSE, cache)
     ELSE IF routerPermissions = {} /\ config.permissionStrategy = "blacklist"
     THEN Outcome(TRUE, 1, 0, FALSE, <<>>, cache)
     ELSE IF Rejects("user_permissions")
     THEN Throws("StoreError", 1, 1, FALSE, cache)
     ELSE IF LogPermissionCheckRejects
     THEN Throws("AuditError", 1, 1, FALSE, cache)
     ELSE Outcome(hasPermissions, 1, 1, FALSE,
                  LogPermissionCheck(userId, route, hasPermissions,
                    [method |-> method,
                     requiredPermissions |->
                       {rp.permissionId : rp \in routerPermissions},
                     userPermissions |-> userPermissions]),
                  cache)

\* PermissionService.checkRoutePermission, second revision: the user's
\* permissions come from getUserPermissions (the cache) and nothing is audited.
RoutePermissionCached(cache, route, method, userId) ==
  LET routerPermissions == FindRouterPermissions(route, method)
      userPermissions == GupPermissions(cache, userId)
      hasPermissions ==
        HasEvery(routerPermissions, {up.id : up \in userPermissions})
  IN IF IsPublic(route)
     THEN Outcome(TRUE, 0, 0, FALSE, <<>>, cache)
     ELSE IF Rejects("router_permissions")
     THEN Throws("StoreError", 1, 0, FALSE, cache)
     ELSE IF routerPermissions = {} /\ config.permissionStrategy = "blacklist"
     THEN Outcome(TRUE, 1, 0, FALSE, <<>>, cache)
     ELSE IF GupError(cache, userId) # "none"
     THEN Throws(GupError(cache, userId), 1, GupReads(cache, userId), TRUE,
                 GupCache(cache, userId))
     ELSE Outcome(hasPermissions, 1, GupReads(cache, userId), TRUE, <<>>,
                  GupCache(cache, userId))

\* The revision of the service a caller is wired to.
RoutePermission(svc, cache, route, method, userId) ==
  IF svc = 1 THEN RoutePermissionDirect(cache, route, method, userId)
  ELSE RoutePermissionCached(cache, route, method, userId)

Services == {1, 2}
OptionStrategies == {"AND", "OR", "none"}
RequiredSets == {{}, {"a"}, {"a", "b"}}

\* ------------------------------------------------------------- the actions
GetUserPermissionsCall(userId) ==
  /\ Idle
  /\ lastCall' = Call("getUserPermissions", 0, "", "", userId, {}, "none",
                      "deny", GupError(permissionCache, userId),
                      GupError(permissionCache, userId) = "none",
                      GupPermissions(permissionCache, userId),
                      0, GupReads(permissionCache, userId), TRUE, <<>>)
  /\ permissionCache' = GupCache(permissionCache, userId)
  /\ UNCHANGED <<grants, bindings, config, now, rejecting, hierarchyVars,
                 asyncVars>>

GetUserPermissions(userId) ==
  /\ GetUserPermissionsCall(userId)
  /\ UNCHANGED callLog

\* The same call, observed by a call-counting store: callLog is a history
\* variable holding the calls made so far.
GetUserPermissionsLogged(userId) ==
  /\ Len(callLog) < MaxCalls
  /\ GetUserPermissionsCall(userId)
  /\ callLog' = Append(callLog, lastCall')

\* PermissionService.invalidateUserCache and clearAllCache, observed like
\* getUserPermissions.
InvalidateUserCache(userId) ==
  /\ Idle
  /\ Len(callLog) < MaxCalls
  /\ lastCall' = Call("invalidateUserCache", 2, "", "", userId, {}, "none",
                      "deny", "none", TRUE, {}, 0, 0, TRUE, <<>>)
  /\ permissionCache' = Delete(permissionCache, userId)
  /\ callLog' = Append(callLog, lastCall')
  /\ provenance' = Invalidated({userId})
  /\ UNCHANGED <<grants, bindings, config, now, rejecting, hierarchyVars,
                 pending, decisionCache>>

ClearAllCache ==
  /\ Idle
  /\ Len(callLog) < MaxCalls
  /\ lastCall' = Call("clearAllCache", 2, "", "", NoUser, {}, "none",
                      "deny", "none", TRUE, {}, 0, 0, TRUE, <<>>)
  /\ permissionCache' = Clear(permissionCache)
  /\ callLog' = Append(callLog, lastCall')
  /\ provenance' = Invalidated(CacheUsers)
  /\ UNCHANGED <<grants, bindings, config, now, rejecting, hierarchyVars,
                 pending, decisionCache>>

CheckRoutePermission(svc, route, method, userId) ==
  LET o == RoutePermission(svc, permissionCache, route, method, userId)
  IN /\ Idle
     /\ lastCall' = Call("checkRoutePermission", svc, route, method, userId,
                         {}, "none", "deny", o.error, o.result, {},
                         o.bindingReads, o.grantReads, o.cacheAccess,
                         o.audits)
     /\ permissionCache' = o.cache
     /\ UNCHANGED <<grants, bindings, config, now, callLog, rejecting,
                    hierarchyVars, asyncVars>>

ValidateUserPermissions(userId, requiredPermissions, strategy) ==
  LET userPermissions == GupPermissions(permissionCache, userId)
      error == GupError(permissionCache, userId)
  IN /\ Idle
     /\ lastCall' = Call("validateUserPermissions", 0, "", "", userId,
                         requiredPermissions, strategy, "deny", error,
                         /\ error = "none"
                         /\ MatchNames(requiredPermissions, strategy,
                                       userPermissions),
                         userPermissions, 0,
                         GupReads(permissionCache, userId), TRUE, <<>>)
     /\ permissionCache' = GupCache(permissionCache, userId)
     /\ UNCHANGED <<grants, bindings, config, now, callLog, rejecting,
                    hierarchyVars, asyncVars>>

\* PermissionsGuard.canActivate, the binding-driven guard.
BindingGuardOutcome(route, requestMethod, userId) ==
  LET method == ToLowerCase(requestMethod)
      routerPermissions == FindRouterPermissions(route, method)
      userPermissions == ActiveGrantIds(userId)
      hasPermissions == HasEvery(routerPermissions, userPermissions)
  IN IF userId = NoUser
     THEN Outcome(FALSE, 0, 0, FALSE, <<>>, permissionCache)
     ELSE IF IsPublic(route)
     THEN Outcome(TRUE, 0, 0, FALSE, <<>>, permissionCache)
     ELSE IF Rejects("router_permissions")
     THEN Throws("StoreError", 1, 0, FALSE, permissionCache)
     ELSE IF routerPermissions = {}
     THEN Outcome(config.permissionStrategy = "blacklist", 1, 0, FALSE, <<>>,
                  permissionCache)
     ELSE IF Rejects("user_permissions")
     THEN Throws("StoreError", 1, 1, FALSE, permissionCache)
     ELSE IF LogPermissionCheckRejects
     THEN Throws("AuditError", 1, 1, FALSE, permissionCache)
     ELSE Outcome(hasPermissions, 1, 1, FALSE,
                  LogPermissionCheck(userId, route, hasPermissions,
                    [method |-> method,
                     requiredPermissions |->
                       {rp.permissionId : rp \in routerPermissions},
                     userPermissions |-> userPermissions]),
                  permissionCache)

CanActivate(route, requestMethod, userId) ==
  LET o == BindingGuardOutcome(route, requestMethod, userId)
  IN /\ Idle
     /\ lastCall' = Call("canActivate", 1, route, requestMethod, userId, {},
                         "none", "deny", o.error, o.result, {},
                         o.bindingReads, o.grantReads, o.cacheAccess,
                         o.audits)
     /\ permissionCache' = o.cache
     /\ UNCHANGED <<grants, bindings, config, now, callLog, rejecting,
                    hierarchyVars, asyncVars>>

\* PermissionsGuard.canActivate, the decorator-driven guard.
DecoratorGuardOutcomeNamesOnly(svc, route, method, userId, requiredPermissions, strategy, fallback) ==
  LET userPermissions == GupPermissions(permissionCache, userId)
      cache1 == GupCache(permissionCache, userId)
      reads1 == GupReads(permissionCache, userId)
      isAdmin == \E p \in userPermissions : p.name = config.adminRole
  IN IF requiredPermissions = {}
     THEN Outcome(TRUE, 0, 0, FALSE, <<>>, permissionCache)
     ELSE IF userId = NoUser
     THEN Outcome(fallback = "allow", 0, 0, FALSE, <<>>, permissionCache)
     ELSE IF GupError(permissionCache, userId) # "none"
     THEN Throws(GupError(permissionCache, userId), 0, reads1, TRUE, cache1)
     ELSE IF isAdmin
     THEN Outcome(TRUE, 0, reads1, TRUE, <<>>, cache1)
     ELSE Outcome(MatchNames(requiredPermissions, strategy, userPermissions),
                  0, reads1, TRUE, <<>>, cache1)

DecoratorGuardOutcome(svc, route, method, userId, requiredPermissions, strategy, fallback) ==
  LET userPermissions == GupPermissions(permissionCache, userId)
      cache1 == GupCache(permissionCache, userId)
      reads1 == GupReads(permissionCache, userId)
      isAdmin == \E p \in userPermissions : p.name = config.adminRole
      rp == RoutePermission(svc, cache1, route, method, userId)
  IN IF requiredPermissions = {}
     THEN Outcome(TRUE, 0, 0, FALSE, <<>>, permissionCache)
     ELSE IF userId = NoUser
     THEN Outcome(fallback = "allow", 0, 0, FALSE, <<>>, permissionCache)
     ELSE IF GupError(permissionCache, userId) # "none"
     THEN Throws(GupError(permissionCache, userId), 0, reads1, TRUE, cache1)
     ELSE IF isAdmin
     THEN Outcome(TRUE, 0, reads1, TRUE, <<>>, cache1)
     ELSE IF rp.error # "none"
     THEN Throws(rp.error, rp.bindingReads, reads1 + rp.grantReads, TRUE,
                 rp.cache)
     ELSE Outcome(rp.result /\ MatchNames(requiredPermissions, strategy,
                                          userPermissions),
                  rp.bindingReads, reads1 + rp.grantReads, TRUE, rp.audits,
                  rp.cache)

CanActivateDecorator(svc, route, method, userId, requiredPermissions, strategy, fallback) ==
  LET o == DecoratorGuardOutcome(svc, route, method, userId,
                                 requiredPermissions, strategy, fallback)
  IN /\ Idle
     /\ lastCall' = Call("canActivateDecorator", svc, route, method, userId,
                         requiredPermissions, strategy, fallback, o.error,
                         o.result, {}, o.bindingReads, o.grantReads,
                         o.cacheAccess, o.audits)
     /\ permissionCache' = o.cache
     /\ UNCHANGED <<grants, bindings, config, now, callLog, rejecting,
                    hierarchyVars, asyncVars>>

\* The caller takes the result of the call it made.
Return ==
  /\ ~Idle
  /\ lastCall' = IdleCall
  /\ UNCHANGED <<grants, bindings, config, now, permissionCache, callLog,
                 rejecting, hierarchyVars, asyncVars>>

\* Date.now() moves on between calls.
Tick ==
  /\ Idle
  /\ now < MaxTicks * TickMs
  /\ now' = now + TickMs
  /\ UNCHANGED <<grants, bindings, config, permissionCache, lastCall, callLog,
                 rejecting, hierarchyVars, asyncVars>>

\* ------------------------------------------------- RoleHierarchyService
Roles == {"admin", "manager", "user"}

\* rootRoles[0] of a hierarchy whose every role is inherited: undefined.
Undefined == "undefined"

\* A RoleHierarchy is an object: here the sequence of its entries in key
\* order, each [role, level, inherits].  No role name is a property of
\* Object.prototype.
Keys(hierarchy) == [i \in 1..Len(hierarchy) |-> hierarchy[i].role]

\* hierarchy[role] is defined.
Declared(hierarchy, role) ==
  \E i \in 1..Len(hierarchy) : hierarchy[i].role = role

Entry(hierarchy, role) ==
  hierarchy[CHOOSE i \in 1..Len(hierarchy) : hierarchy[i].role = role]

\* hierarchy[role]?.inherits || []
Inherits(hierarchy, role) ==
  IF Declared(hierarchy, role) THEN Entry(hierarchy, role).inherits ELSE <<>>

\* permissionRepository.find({ where: { name: role, isActive: true } })
FindByRoleName(role) ==
  {p.id : p \in {x \in permissionRows : x.name = role /\ x.isActive}}

\* permissionRepository.findByIds(ids)
FindByIds(ids) == {p.id : p \in {x \in permissionRows : x.id \in ids}}

\* validateRoleHierarchy: hasCycle with its two sets, and the loops that call
\* it: over the inherits of a role, and over Object.keys(hierarchy).
RECURSIVE HasCycle(_, _, _), HasCycleAmong(_, _, _, _)
HasCycle(hierarchy, currentRole, s) ==
  IF currentRole \in s.recursionStack THEN [s EXCEPT !.cycle = TRUE]
  ELSE IF currentRole \in s.visited THEN s
  ELSE LET entered ==
             [cycle |-> FALSE,
              visited |-> s.visited \cup {currentRole},
              recursionStack |-> s.recursionStack \cup {currentRole}]
           after == HasCycleAmong(hierarchy, Inherits(hierarchy, currentRole),
                                  1, entered)
       IN IF after.cycle THEN after
          ELSE [after EXCEPT !.recursionStack = @ \ {currentRole}]

HasCycleAmong(hierarchy, roles, i, s) ==
  IF i > Len(roles) THEN s
  ELSE LET after == HasCycle(hierarchy, roles[i], s)
       IN IF after.cycle THEN after
          ELSE HasCycleAmong(hierarchy, roles, i + 1, after)

\* hierarchy[childRole].level >= config.level
LevelAbove(childLevel, parentLevel) == childLevel > parentLevel

LevelNotBelow(childLevel, parentLevel) == childLevel >= parentLevel

\* The (parentRole, childRole) pairs in the order of the two nested loops.
RECURSIVE EdgesFrom(_, _)
EdgesFrom(hierarchy, i) ==
  IF i > Len(hierarchy) THEN <<>>
  ELSE [j \in 1..Len(hierarchy[i].inherits) |->
          [parent |-> hierarchy[i].role, child |-> hierarchy[i].inherits[j]]]
       \o EdgesFrom(hierarchy, i + 1)

\* What a validation gives back: a value, or an error and the roles its
\* message names.
Validation(result, error, names) ==
  [result |-> result, error |-> error, names |-> names]

ValidateRoleHierarchyResult(hierarchy) ==
  LET edges == EdgesFrom(hierarchy, 1)
      start == [cycle |-> FALSE, visited |-> {}, recursionStack |-> {}]
      stops(k) ==
        \/ ~Declared(hierarchy, edges[k].child)
        \/ LevelNotBelow(Entry(hierarchy, edges[k].child).level,
                         Entry(hierarchy, edges[k].parent).level)
      stopping == {k \in 1..Len(edges) : stops(k)}
      first == CHOOSE k \in stopping : \A l \in stopping : k <= l
  IN IF HasCycleAmong(hierarchy, Keys(hierarchy), 1, start).cycle
     THEN Validation(FALSE, "none", {})
     ELSE IF stopping = {} THEN Validation(TRUE, "none", {})
     ELSE IF ~Declared(hierarchy, edges[first].child)
     THEN Validation(FALSE, "none", {})
     ELSE Validation(FALSE, "RoleHierarchyException",
                     {edges[first].child, edges[first].parent})

\* validateHierarchy: checkCircular with its two sets; thrown holds the roles
\* named by the exception, if one was thrown.
RECURSIVE CheckCircular(_, _, _), CheckCircularAmong(_, _, _, _, _)
CheckCircular(hierarchy, currentRole, s) ==
  LET entered ==
        [s EXCEPT !.visited = @ \cup {currentRole},
                  !.recursionStack = @ \cup {currentRole}]
      after == CheckCircularAmong(hierarchy, currentRole,
                                  Inherits(hierarchy, currentRole), 1, entered)
  IN IF after.thrown # {} THEN after
     ELSE [after EXCEPT !.recursionStack = @ \ {currentRole}]

CheckCircularAmong(hierarchy, currentRole, inherits, i, s) ==
  IF i > Len(inherits) \/ s.thrown # {} THEN s
  ELSE LET inheritedRole == inherits[i]
           after ==
             IF inheritedRole \notin s.visited
             THEN CheckCircular(hierarchy, inheritedRole, s)
             ELSE IF inheritedRole \in s.recursionStack
             THEN [s EXCEPT !.thrown = {currentRole, inheritedRole}]
             ELSE s
       IN CheckCircularAmong(hierarchy, currentRole, inherits, i + 1, after)

\* Object.keys(hierarchy).forEach(checkCircular)
RECURSIVE CheckCircularKeys(_, _, _)
CheckCircularKeys(hierarchy, i, s) ==
  IF i > Len(hierarchy) \/ s.thrown # {} THEN s
  ELSE CheckCircularKeys(hierarchy, i + 1,
                         CheckCircular(hierarchy, hierarchy[i].role, s))

ValidateHierarchyResult(hierarchy) ==
  LET start == [thrown |-> {}, visited |-> {}, recursionStack |-> {}]
      end == CheckCircularKeys(hierarchy, 1, start)
  IN IF end.thrown = {} THEN Validation(TRUE, "none", {})
     ELSE Validation(FALSE, "RoleHierarchyException", end.thrown)

\* getRolePermissions as a function of the per-role cache it finds: the ids
\* of the permissions it returns, and the cache it leaves.
RolePermissionIds(cache, role) ==
  IF role \in DOMAIN cache THEN FindByIds(cache[role])
  ELSE FindByRoleName(role)

RoleCacheAfter(cache, role) ==
  IF role \in DOMAIN cache THEN cache
  ELSE cache @@ (role :> FindByRoleName(role))

\* What building gives back: the node built (none when it threw), and the
\* per-role cache it leaves.
Built(error, nodes, cache) == [error |-> error, nodes |-> nodes, cache |-> cache]

\* buildRoleNode, and its loop over inherits.  hierarchy[role] of a role that
\* is not declared is undefined, and destructuring it throws a TypeError.  A
\* role that inherits from itself through any path is entered without end:
\* a path longer than the hierarchy has entered one role twice, and the calls
\* stop when the call stack is exhausted (a RangeError).
RECURSIVE BuildRoleNode(_, _, _, _), BuildChildren(_, _, _, _, _)
BuildRoleNode(role, hierarchy, cache, depth) ==
  IF ~Declared(hierarchy, role) THEN Built("TypeError", <<>>, cache)
  ELSE IF depth > Len(hierarchy) THEN Built("RangeError", <<>>, cache)
  ELSE LET children == BuildChildren(Entry(hierarchy, role).inherits, 1,
                                     hierarchy, cache, depth + 1)
       IN IF children.error # "none"
          THEN Built(children.error, <<>>, children.cache)
          ELSE Built("none",
                     << [role |-> role,
                         level |-> Entry(hierarchy, role).level,
                         children |-> children.nodes,
                         permissions |->
                           RolePermissionIds(children.cache, role)] >>,
                     RoleCacheAfter(children.cache, role))

BuildChildren(inherits, i, hierarchy, cache, depth) ==
  IF i > Len(inherits) THEN Built("none", <<>>, cache)
  ELSE LET childNode == BuildRoleNode(inherits[i], hierarchy, cache, depth)
           rest == BuildChildren(inherits, i + 1, hierarchy, childNode.cache,
                                 depth)
       IN IF childNode.error # "none" THEN childNode
          ELSE IF rest.error # "none" THEN rest
          ELSE Built("none", childNode.nodes \o rest.nodes, rest.cache)

\* new Set(roles.flatMap((role) => hierarchy[role].inherits || []))
ChildRoles(hierarchy) ==
  UNION {{hierarchy[i].inherits[j] : j \in 1..Len(hierarchy[i].inherits)} :
           i \in 1..Len(hierarchy)}

\* roles.filter((role) => !childRoles.has(role))
RootRoles(hierarchy) ==
  SelectSeq(Keys(hierarchy), LAMBDA role : role \notin ChildRoles(hierarchy))

\* buildRoleTree up to the assignment of this.roleTree.
BuildRoleTreeResult(hierarchy, cache) ==
  LET rootRoles == RootRoles(hierarchy)
  IN BuildRoleNode(IF rootRoles = <<>> THEN Undefined ELSE rootRoles[1],
                   hierarchy, cache, 1)

\* findRoleNode: the node found, or none.
RECURSIVE FindRoleNode(_, _), FindRoleNodeAmong(_, _, _)
FindRoleNode(node, role) ==
  IF node.role = role THEN <<node>>
  ELSE FindRoleNodeAmong(node.children, 1, role)

FindRoleNodeAmong(children, i, role) ==
  IF i > Len(children) THEN <<>>
  ELSE LET found == FindRoleNode(children[i], role)
       IN IF found # <<>> THEN found
          ELSE FindRoleNodeAmong(children, i + 1, role)

RECURSIVE CollectPermissions(_)
CollectPermissions(node) ==
  node.permissions
    \cup UNION {CollectPermissions(node.children[i]) :
                  i \in 1..Len(node.children)}

\* What getInheritedPermissions gives back: the error it throws or the ids
\* of the permissions it returns, and the store reads it issues.
Inherited(error, permissions, reads) ==
  [error |-> error, permissions |-> permissions, reads |-> reads]

InheritedPermissionsLenient(tree, role) ==
  IF tree = <<>> \/ FindRoleNode(tree[1], role) = <<>>
  THEN Inherited("none", {}, 0)
  ELSE Inherited("none",
                 FindByIds(CollectPermissions(FindRoleNode(tree[1], role)[1])),
                 1)

InheritedPermissions(tree, role) ==
  IF tree = <<>> THEN Inherited("Role hierarchy not initialized", {}, 0)
  ELSE IF FindRoleNode(tree[1], role) = <<>>
  THEN Inherited("Role not found", {}, 0)
  ELSE Inherited("none",
                 FindByIds(CollectPermissions(FindRoleNode(tree[1], role)[1])),
                 1)

\* ---- the calls of RoleHierarchyService in flight
\* buildRoleNode awaits getRolePermissions once for every node, children
\* before their parent: the roles in the order they are resolved, and the
\* error that ends the calls (the roles before it were resolved).
RECURSIVE Resolutions(_, _, _), ResolutionsAmong(_, _, _, _)
Resolutions(role, hierarchy, depth) ==
  IF ~Declared(hierarchy, role) THEN [error |-> "TypeError", roles |-> <<>>]
  ELSE IF depth > Len(hierarchy) THEN [error |-> "RangeError", roles |-> <<>>]
  ELSE LET children == ResolutionsAmong(Entry(hierarchy, role).inherits, 1,
                                        hierarchy, depth + 1)
       IN IF children.error # "none" THEN children
          ELSE [error |-> "none", roles |-> Append(children.roles, role)]

ResolutionsAmong(inherits, i, hierarchy, depth) ==
  IF i > Len(inherits) THEN [error |-> "none", roles |-> <<>>]
  ELSE LET child == Resolutions(inherits[i], hierarchy, depth)
           rest == ResolutionsAmong(inherits, i + 1, hierarchy, depth)
       IN IF child.error # "none" THEN child
          ELSE [error |-> rest.error, roles |-> child.roles \o rest.roles]

\* The node buildRoleNode returns once its awaits have resolved: resolved[k]
\* is what the k-th getRolePermissions gave.
RECURSIVE NodeFrom(_, _, _, _), NodesFrom(_, _, _, _, _)
NodeFrom(role, hierarchy, resolved, k) ==
  LET children == NodesFrom(Entry(hierarchy, role).inherits, 1, hierarchy,
                            resolved, k)
  IN [nodes |-> << [role |-> role,
                    level |-> Entry(hierarchy, role).level,
                    children |-> children.nodes,
                    permissions |-> resolved[children.next]] >>,
      next |-> children.next + 1]

NodesFrom(inherits, i, hierarchy, resolved, k) ==
  IF i > Len(inherits) THEN [nodes |-> <<>>, next |-> k]
  ELSE LET childNode == NodeFrom(inherits[i], hierarchy, resolved, k)
           rest == NodesFrom(inherits, i + 1, hierarchy, resolved,
                             childNode.next)
       IN [nodes |-> childNode.nodes \o rest.nodes, next |-> rest.next]

\* A buildRoleTree call in flight: the roles it resolves, the error that ends
\* it, what its getRolePermissions found in rolePermissions (<<>> when
\* nothing), what the store answered, and what was resolved so far.
Build(phase, hierarchy, roles, error, cached, answer, resolved) ==
  [phase |-> phase, hierarchy |-> hierarchy, roles |-> roles, error |-> error,
   cached |-> cached, answer |-> answer, resolved |-> resolved]

NoBuild == Build("none", <<>>, <<>>, "none", <<>>, {}, <<>>)

\* The role the call in flight is resolving.
Resolving(b) == b.roles[Len(b.resolved) + 1]

\* getRolePermissions up to its await: rolePermissions.get(role), then the
\* repository call is issued.
RoleLookup(b, cache) ==
  [b EXCEPT !.phase = "reading",
            !.cached = IF Resolving(b) \in DOMAIN cache
                       THEN <<cache[Resolving(b)]>> ELSE <<>>]

\* The repository answers the call that was issued: findByIds of the cached
\* ids, or find by name.
RoleAnswer(b) ==
  IF b.cached # <<>> THEN FindByIds(b.cached[1])
  ELSE FindByRoleName(Resolving(b))

\* rolePermissions.set(role, ...) after the find; the cached path sets nothing.
RoleCacheSet(b, cache) ==
  IF b.cached # <<>> THEN cache
  ELSE (Resolving(b) :> b.answer) @@ cache

\* buildRoleTree assigns this.roleTree once the root node is built, and not
\* before.
InstalledEarly(b, tree) ==
  IF b.error # "none" THEN tree
  ELSE NodeFrom(b.roles[Len(b.roles)], b.hierarchy,
                b.resolved \o [k \in 1..(Len(b.roles) - Len(b.resolved)) |-> {}],
                1).nodes

Installed(b, tree) ==
  IF Len(b.resolved) < Len(b.roles) \/ b.error # "none" THEN tree
  ELSE NodeFrom(b.roles[Len(b.roles)], b.hierarchy, b.resolved, 1).nodes

\* What a call of RoleHierarchyService leaves behind for the caller.
RoleCall(op, hierarchy, role, error, result, names, permissions, reads) ==
  [op |-> op, hierarchy |-> hierarchy, role |-> role, error |-> error,
   result |-> result, names |-> names, permissions |-> permissions,
   reads |-> reads]

IdleRoleCall == RoleCall("none", <<>>, "", "none", FALSE, {}, {}, 0)

RoleIdle == roleCall = IdleRoleCall

serviceVars ==
  <<grants, bindings, config, now, permissionCache, lastCall, callLog,
    rejecting, asyncVars>>

ValidateRoleHierarchy(hierarchy) ==
  LET v == ValidateRoleHierarchyResult(hierarchy)
  IN /\ RoleIdle
     /\ roleCall' = RoleCall("validateRoleHierarchy", hierarchy, "", v.error,
                             v.result, v.names, {}, 0)
     /\ UNCHANGED <<serviceVars, permissionRows, roleTree, rolePermissions,
                    building, inheriting, origin>>

ValidateHierarchy(hierarchy) ==
  LET v == ValidateHierarchyResult(hierarchy)
  IN /\ RoleIdle
     /\ roleCall' = RoleCall("validateHierarchy", hierarchy, "", v.error,
                             v.result, v.names, {}, 0)
     /\ UNCHANGED <<serviceVars, permissionRows, roleTree, rolePermissions,
                    building, inheriting, origin>>

BuildRoleTree(hierarchy) ==
  LET b == BuildRoleTreeResult(hierarchy, rolePermissions)
  IN /\ RoleIdle
     /\ roleTree' = IF b.error = "none" THEN b.nodes ELSE roleTree
     /\ rolePermissions' = b.cache
     /\ roleCall' = RoleCall("buildRoleTree", hierarchy, "", b.error,
                             b.error = "none", {}, {}, 0)
     /\ origin' = [origin EXCEPT !.sinceClear =
                     IF b.error = "none" /\ @ = "cleared" THEN "rebuilt"
                     ELSE @]
     /\ UNCHANGED <<serviceVars, permissionRows, building, inheriting>>

GetInheritedPermissions(role) ==
  LET g == InheritedPermissions(roleTree, role)
  IN /\ RoleIdle
     /\ roleCall' = RoleCall("getInheritedPermissions", <<>>, role, g.error,
                             g.error = "none", {}, g.permissions, g.reads)
     /\ UNCHANGED <<serviceVars, permissionRows, roleTree, rolePermissions,
                    building, inheriting, origin>>

ClearCache ==
  /\ RoleIdle
  /\ rolePermissions' = <<>>
  /\ roleTree' = <<>>
  /\ roleCall' = RoleCall("clearCache", <<>>, "", "none", TRUE, {}, {}, 0)
  /\ origin' = [sinceClear |-> "cleared",
                overtaken |-> building.phase # "none",
                staleRoles |-> {}]
  /\ UNCHANGED <<serviceVars, permissionRows, building, inheriting>>

\* The caller takes the result of the call it made.
RoleReturn ==
  /\ ~RoleIdle
  /\ roleCall' = IdleRoleCall
  /\ UNCHANGED <<serviceVars, permissionRows, roleTree, rolePermissions,
                    building, inheriting, origin>>

\* ---- the same calls, one await at a time
\* buildRoleTree runs to its first awaited repository call.  A hierarchy whose
\* root cannot be entered rejects at once.
StartBuildRoleTree(hierarchy) ==
  LET rootRoles == RootRoles(hierarchy)
      plan == Resolutions(IF rootRoles = <<>> THEN Undefined ELSE rootRoles[1],
                          hierarchy, 1)
  IN /\ building.phase = "none"
     /\ IF plan.roles = <<>>
        THEN /\ RoleIdle
             /\ roleCall' = RoleCall("buildRoleTree", hierarchy, "",
                                     plan.error, FALSE, {}, {}, 0)
             /\ UNCHANGED <<building, origin>>
        ELSE /\ building' = RoleLookup(Build("reading", hierarchy, plan.roles,
                                             plan.error, <<>>, {}, <<>>),
                                       rolePermissions)
             /\ origin' = [origin EXCEPT !.overtaken = FALSE]
             /\ UNCHANGED roleCall
     /\ UNCHANGED <<serviceVars, permissionRows, roleTree, rolePermissions,
                    inheriting>>

\* The repository answers the call getRolePermissions awaits.
AnswerRolePermissions ==
  /\ building.phase = "reading"
  /\ building' = [building EXCEPT !.phase = "answered",
                                  !.answer = RoleAnswer(building)]
  /\ UNCHANGED <<serviceVars, permissionRows, roleTree, rolePermissions,
                 roleCall, inheriting, origin>>

\* The awaiting code runs on: getRolePermissions sets the cache and returns,
\* buildRoleNode goes on to the next getRolePermissions and its repository
\* call, or to the end of buildRoleTree (the assignment of roleTree) or to
\* the throw that ends it.
ContinueBuildRoleTree ==
  LET b == building
      cacheAfter == RoleCacheSet(b, rolePermissions)
      done == [b EXCEPT !.resolved = Append(@, b.answer), !.answer = {},
                        !.cached = <<>>]
      finished == Len(done.resolved) = Len(done.roles)
  IN /\ b.phase = "answered"
     /\ rolePermissions' = cacheAfter
     /\ roleTree' = Installed(done, roleTree)
     /\ IF finished
        THEN /\ RoleIdle
             /\ building' = NoBuild
             /\ roleCall' = RoleCall("buildRoleTree", b.hierarchy, "",
                                     b.error, b.error = "none", {}, {}, 0)
        ELSE /\ building' = RoleLookup(done, cacheAfter)
             /\ UNCHANGED roleCall
     /\ origin' =
          [sinceClear |->
             IF finished /\ b.error = "none" /\ ~origin.overtaken
                /\ origin.sinceClear = "cleared"
             THEN "rebuilt" ELSE origin.sinceClear,
           overtaken |-> origin.overtaken /\ ~finished,
           staleRoles |->
             IF b.cached # <<>> THEN origin.staleRoles
             ELSE IF origin.overtaken
             THEN origin.staleRoles \cup {Resolving(b)}
             ELSE origin.staleRoles \ {Resolving(b)}]
     /\ UNCHANGED <<serviceVars, permissionRows, inheriting>>

\* getInheritedPermissions up to its await: it throws, or it has collected
\* the ids from the tree it found in this.roleTree.
StartGetInheritedPermissions(role) ==
  LET g == InheritedPermissions(roleTree, role)
  IN /\ inheriting.phase = "none"
     /\ IF g.error # "none"
        THEN /\ RoleIdle
             /\ roleCall' = RoleCall("getInheritedPermissions", <<>>, role,
                                     g.error, FALSE, {}, {}, 0)
             /\ UNCHANGED inheriting
        ELSE /\ inheriting' =
                  [phase |-> "reading", role |-> role,
                   ids |-> CollectPermissions(FindRoleNode(roleTree[1],
                                                           role)[1]),
                   tree |-> roleTree]
             /\ UNCHANGED roleCall
     /\ UNCHANGED <<serviceVars, permissionRows, roleTree, rolePermissions,
                    building, origin>>

\* findByIds answers and getInheritedPermissions returns.
FinishGetInheritedPermissions ==
  /\ inheriting.phase = "reading"
  /\ RoleIdle
  /\ roleCall' = RoleCall("getInheritedPermissions", <<>>, inheriting.role,
                          "none", TRUE, {}, FindByIds(inheriting.ids), 1)
  /\ inheriting' = [phase |-> "none", role |-> "", ids |-> {}, tree |-> <<>>]
  /\ UNCHANGED <<serviceVars, permissionRows, roleTree, rolePermissions,
                 building, origin>>

\* The rows of permissions change at any time.
ReplacePermissions(table) ==
  /\ permissionRows # table
  /\ permissionRows' = table
  /\ UNCHANGED <<serviceVars, roleTree, rolePermissions, roleCall, building,
                 inheriting, origin>>

\* ---- getUserPermissions, one await at a time
\* getUserPermissions up to its await: a hit returns the cached list at once,
\* a miss issues the find.
StartGetUserPermissions(slot, userId) ==
  /\ pending[slot].phase = "none"
  /\ IF CacheHit(permissionCache, userId)
     THEN /\ Idle
          /\ lastCall' = Call("getUserPermissions", 2, "", "", userId, {},
                              "none", "deny", "none", TRUE,
                              permissionCache[userId].permissions, 0, 0, TRUE,
                              <<>>)
          /\ UNCHANGED pending
     ELSE /\ pending' = [pending EXCEPT ![slot] =
                           [phase |-> "issued", userId |-> userId,
                            rows |-> {}, startedAt |-> now]]
          /\ UNCHANGED lastCall
  /\ UNCHANGED <<grants, bindings, config, now, permissionCache, callLog,
                 rejecting, hierarchyVars, decisionCache, provenance>>

\* The repository answers the find with the rows it holds then, or rejects.
AnswerFind(slot) ==
  /\ pending[slot].phase = "issued"
  /\ pending' = [pending EXCEPT ![slot] =
                   IF Rejects("user_permissions")
                   THEN [@ EXCEPT !.phase = "rejected"]
                   ELSE [@ EXCEPT !.phase = "answered",
                                  !.rows =
                                    FindByUserId(pending[slot].userId)]]
  /\ UNCHANGED <<grants, bindings, config, now, permissionCache, lastCall,
                 callLog, rejecting, hierarchyVars, decisionCache, provenance>>

\* The awaiting code runs on: permissionCache.set(userId, { permissions,
\* timestamp: Date.now() }) and the return, or the throw.
FinishGetUserPermissions(slot) ==
  LET call == pending[slot]
      userId == call.userId
  IN /\ call.phase \in {"answered", "rejected"}
     /\ Idle
     /\ pending' = [pending EXCEPT ![slot] = NoPending]
     /\ IF call.phase = "rejected"
        THEN /\ lastCall' = Call("getUserPermissions", 2, "", "", userId, {},
                                 "none", "deny", "StoreError", FALSE, {}, 0,
                                 1, TRUE, <<>>)
             /\ UNCHANGED permissionCache
        ELSE /\ lastCall' = Call("getUserPermissions", 2, "", "", userId, {},
                                 "none", "deny", "none", TRUE, call.rows, 0,
                                 1, TRUE, <<>>)
             /\ permissionCache' =
                  [permissionCache EXCEPT ![userId] =
                     [permissions |-> call.rows, timestamp |-> now]]
     /\ provenance' =
          [provenance EXCEPT
             !.overtaken = @ \ {slot},
             !.staleUsers = IF call.phase = "rejected" THEN @
                            ELSE IF slot \in provenance.overtaken
                            THEN @ \cup {userId}
                            ELSE @ \ {userId}]
     /\ UNCHANGED <<grants, bindings, config, now, callLog, rejecting,
                    hierarchyVars, decisionCache>>

\* A grant is written or deleted; the history keeps when.
GrantsChange(row) ==
  /\ Idle
  /\ row \in grants \/ Cardinality(grants) < MaxGrants
  /\ grants' = IF row \in grants THEN grants \ {row} ELSE grants \cup {row}
  /\ provenance' = [provenance EXCEPT !.changedAt[row.userId] = now]
  /\ UNCHANGED <<bindings, config, now, permissionCache, lastCall, callLog,
                 rejecting, hierarchyVars, pending, decisionCache>>

\* ---- hasPermission
\* up.permissionId of an element of the list getUserPermissions returns: the
\* elements are built with id, name, description, isActive, createdAt and
\* updatedAt, so the property is absent.
PermissionIdOf(up) ==
  IF "permissionId" \in DOMAIN up THEN up.permissionId ELSE Undefined

\* getRouterPermissions: the active bindings of the route and method.
GetRouterPermissions(route, method) == FindRouterPermissions(route, method)

\* cached && Date.now() - cached.timestamp < config.security.cacheTimeout * 1000
DecisionHit(decisions, key) ==
  /\ key \in DOMAIN decisions
  /\ now - decisions[key].timestamp < config.cacheTimeout * 1000

\* permissionIds.some((id) => requiredPermissionIds.includes(id))
HasSome(userPermissions, routerPermissions) ==
  \E up \in userPermissions :
    PermissionIdOf(up) \in {rp.permissionId : rp \in routerPermissions}

\* if (config.security.enableCaching) this.cache.set(cacheKey, ...)
DecisionsSetAlways(decisions, key, hasPermission) ==
  (key :> [timestamp |-> now, hasPermission |-> hasPermission]) @@ decisions

DecisionsSet(decisions, key, hasPermission) ==
  IF config.enableCaching
  THEN (key :> [timestamp |-> now, hasPermission |-> hasPermission])
         @@ decisions
  ELSE decisions

\* hasPermission as a function of the caches it finds: what it gives back,
\* the store reads it issues, and the caches it leaves.
Decision(error, result, served, bindingReads, grantReads, cache, decisions) ==
  [error |-> error, result |-> result, served |-> served,
   bindingReads |-> bindingReads, grantReads |-> grantReads, cache |-> cache,
   decisions |-> decisions]

HasPermissionOutcome(decisions, cache, userId, route, method) ==
  LET key == CacheKey(userId, route, method)
      hasPermission ==
        HasSome(GupPermissions(cache, userId),
                GetRouterPermissions(route, method))
  IN IF DecisionHit(decisions, key)
     THEN Decision("none", decisions[key].hasPermission, TRUE, 0, 0, cache,
                   decisions)
     ELSE IF GupError(cache, userId) # "none"
     THEN Decision(GupError(cache, userId), FALSE, FALSE, 0,
                   GupReads(cache, userId), GupCache(cache, userId), decisions)
     ELSE IF Rejects("router_permissions")
     THEN Decision("StoreError", FALSE, FALSE, 1, GupReads(cache, userId),
                   GupCache(cache, userId), decisions)
     ELSE Decision("none", hasPermission, FALSE, 1, GupReads(cache, userId),
                   GupCache(cache, userId),
                   DecisionsSet(decisions, key, hasPermission))

HasPermission(userId, route, method) ==
  LET d == HasPermissionOutcome(decisionCache, permissionCache, userId, route,
                                method)
  IN /\ Idle
     /\ lastCall' = Call("hasPermission", 2, route, method, userId, {},
                         "none", "deny", d.error, d.result,
                         GupPermissions(permissionCache, userId),
                         d.bindingReads, d.grantReads, ~d.served, <<>>)
     /\ permissionCache' = d.cache
     /\ decisionCache' = d.decisions
     /\ provenance' =
          [provenance EXCEPT
             !.staleKeys = IF d.decisions # decisionCache
                           THEN @ \ {CacheKey(userId, route, method)} ELSE @,
             !.staleUsers = IF d.cache # permissionCache
                            THEN @ \ {userId} ELSE @]
     /\ UNCHANGED <<grants, bindings, config, now, callLog, rejecting,
                    hierarchyVars, pending>>

\* The rows of user_permissions change between calls: a grant is written or
\* deleted by whoever administers the store.
WriteGrant(row) ==
  /\ Idle
  /\ row \notin grants
  /\ Cardinality(grants) < MaxGrants
  /\ grants' = grants \cup {row}
  /\ UNCHANGED <<bindings, config, now, permissionCache, lastCall, callLog,
                 rejecting, hierarchyVars, asyncVars>>

DeleteGrant(row) ==
  /\ Idle
  /\ row \in grants
  /\ grants' = grants \ {row}
  /\ UNCHANGED <<bindings, config, now, permissionCache, lastCall, callLog,
                 rejecting, hierarchyVars, asyncVars>>

\* A repository starts or stops rejecting between calls.
StoreFault(repositories) ==
  /\ Idle
  /\ rejecting # repositories
  /\ rejecting' = repositories
  /\ UNCHANGED <<grants, bindings, config, now, permissionCache, lastCall,
                 callLog, hierarchyVars, asyncVars>>

\* ------------------------------------------------------ initial states
AtMost(rows, max) == {S \in SUBSET rows : Cardinality(S) <= max}

Configs(timeouts, auditFlags) ==
  [permissionStrategy : Strategies, publicRoutes : {{PublicRoute}},
   adminRole : {"admin"}, cacheTimeout : timeouts,
   enableAuditLog : auditFlags, enableCaching : {TRUE}]

\* The same with security.enableCaching either way, and nothing audited.
CachingConfigs(timeouts, cachingFlags) ==
  [permissionStrategy : Strategies, publicRoutes : {{PublicRoute}},
   adminRole : {"admin"}, cacheTimeout : timeouts,
   enableAuditLog : {FALSE}, enableCaching : cachingFlags]

\* The permission service and the guards after construction.
InitService(grantRows, bindingRows, configs) ==
  /\ grants \in AtMost(grantRows, MaxGrants)
  /\ bindings \in AtMost(bindingRows, MaxBindings)
  /\ config \in configs
  /\ now = 0
  /\ permissionCache = [u \in CacheUsers |-> NoEntry]
  /\ lastCall = IdleCall
  /\ callLog = <<>>
  /\ rejecting = {}
  /\ pending = [slot \in Slots |-> NoPending]
  /\ decisionCache = <<>>
  /\ provenance = [overtaken |-> {}, staleUsers |-> {}, staleKeys |-> {},
                   changedAt |-> [u \in CacheUsers |-> NoExpiry]]

\* The role hierarchy service after construction.
InitHierarchy(tables) ==
  /\ permissionRows \in tables
  /\ roleTree = <<>>
  /\ rolePermissions = <<>>
  /\ roleCall = IdleRoleCall
  /\ building = NoBuild
  /\ inheriting = [phase |-> "none", role |-> "", ids |-> {}, tree |-> <<>>]
  /\ origin = [sinceClear |-> "never", overtaken |-> FALSE, staleRoles |-> {}]

InitWith(grantRows, bindingRows, configs) ==
  /\ InitService(grantRows, bindingRows, configs)
  /\ InitHierarchy({{}})

\* ------------------------------------------- route authorization (Spec)
\* Grants without an expiry date; the inactive ones are for one permission.
\* The clock stands still in Spec: a route decision reads it only through the
\* cache's expiry test, which SpecGrants and SpecCache exercise.
RouteGrantRows ==
  {g \in GrantRows :
     g.expiresAt = NoExpiry /\ (~g.isActive => g.permissionId = "p1")}

Init == InitWith(RouteGrantRows, BindingRows, Configs({1}, {TRUE}))

DecoratorRequests ==
  {r \in [svc : Services, route : Routes, method : RequestMethods,
          userId : Users \cup {NoUser}, required : RequiredSets,
          strategy : {"AND", "OR"}, fallback : {"allow", "deny"}] :
     /\ r.userId # NoUser => r.fallback = "deny"
     /\ (r.userId = NoUser \/ r.required = {}) =>
          r.strategy = "AND" /\ r.svc = 1}

Next ==
  \/ \E u \in Users : GetUserPermissions(u)
  \/ \E u \in Users, required \in RequiredSets, s \in OptionStrategies :
       ValidateUserPermissions(u, required, s)
  \/ \E svc \in Services, r \in Routes, m \in RequestMethods, u \in Users :
       CheckRoutePermission(svc, r, m, u)
  \/ \E r \in Routes, m \in RequestMethods, u \in Users \cup {NoUser} :
       CanActivate(r, m, u)
  \/ \E q \in DecoratorRequests :
       CanActivateDecorator(q.svc, q.route, q.method, q.userId, q.required,
                            q.strategy, q.fallback)
  \/ Return

Spec == Init /\ [][Next]_vars

\* ------------------------------------- grants that lapse (SpecGrants)
\* Grants of two permissions, active or not, with or without an expiry date
\* that the clock passes; one binding at most.
LapsingGrantRows == {g \in GrantRows : g.permissionId # "p3"}

GetBindingRows ==
  {b \in BindingRows :
     b.method = "GET" /\ b.permissionId = "p1" /\ b.isActive}

InitGrants == InitWith(LapsingGrantRows, GetBindingRows, Configs({1}, {TRUE}))

NextGrants ==
  \/ \E u \in Users : GetUserPermissions(u)
  \/ \E u \in Users, required \in RequiredSets, s \in OptionStrategies :
       ValidateUserPermissions(u, required, s)
  \/ \E svc \in Services, r \in Routes, m \in RequestMethods, u \in Users :
       CheckRoutePermission(svc, r, m, u)
  \/ Return
  \/ Tick

SpecGrants == InitGrants /\ [][NextGrants]_vars

\* ------------------------------------------ the user cache (SpecCache)
\* getUserPermissions alone, against a call-counting store, for a timeout of
\* no, one and two seconds.
CachedGrantRows ==
  {g \in GrantRows :
     g.expiresAt = NoExpiry /\ g.isActive /\ g.permissionId # "p3"}

InitCache == InitWith(CachedGrantRows, {}, Configs({0, 1, 2}, {TRUE}))

NextCache ==
  \/ \E u \in Users : GetUserPermissionsLogged(u)
  \/ Return
  \/ Tick

SpecCache == InitCache /\ [][NextCache]_vars

\* ------------------------------ dropping cache entries (SpecInvalidate)
\* getUserPermissions, invalidateUserCache and clearAllCache for two users,
\* against a call-counting store whose grants (of one permission) change
\* between calls.
InvalidateGrantRows ==
  [userId : CacheUsers, permissionId : {"p1"}, isActive : {TRUE},
   expiresAt : {NoExpiry}]

InitInvalidate ==
  /\ InitWith(InvalidateGrantRows, {}, Configs({1}, {TRUE}))
  /\ config.permissionStrategy = "whitelist"

NextInvalidate ==
  \/ \E u \in CacheUsers : GetUserPermissionsLogged(u)
  \/ \E u \in CacheUsers : InvalidateUserCache(u)
  \/ ClearAllCache
  \/ \E row \in InvalidateGrantRows : WriteGrant(row)
  \/ \E row \in InvalidateGrantRows : DeleteGrant(row)
  \/ Return
  \/ Tick

SpecInvalidate == InitInvalidate /\ [][NextInvalidate]_vars

\* ------------------------------------ rejecting stores (SpecFaults)
\* The service and the binding-driven guard while one repository, or none,
\* rejects; audit logging enabled or not.
FaultBindingRows ==
  {b \in BindingRows : b.permissionId = "p1" /\ b.isActive /\ b.method # "*"}

Faults == {{}} \cup {{repository} : repository \in Repositories}

InitFaults == InitWith(CachedGrantRows, FaultBindingRows, Configs({1}, BOOLEAN))

NextFaults ==
  \/ \E u \in Users : GetUserPermissions(u)
  \/ \E u \in Users, s \in {"AND", "OR"} :
       ValidateUserPermissions(u, {"a", "b"}, s)
  \/ \E svc \in Services, r \in Routes, m \in RequestMethods, u \in Users :
       CheckRoutePermission(svc, r, m, u)
  \/ \E r \in Routes, m \in RequestMethods, u \in Users : CanActivate(r, m, u)
  \/ \E repositories \in Faults : StoreFault(repositories)
  \/ Return
  \/ Tick

SpecFaults == InitFaults /\ [][NextFaults]_vars

\* --------------------------------- hierarchy validation (SpecValidate)
\* level of each role: the usual ranking, and one level for all.
StandardLevels ==
  [role \in Roles |->
     CASE role = "admin" -> 3 [] role = "manager" -> 2 [] OTHER -> 1]

FlatLevels == [role \in Roles |-> 1]

\* Object.keys of the hierarchies: none, the three roles in two orders, and
\* two roles (a role that is not a key is not declared).
KeyOrders ==
  {<<>>, <<"admin", "manager", "user">>, <<"user", "manager", "admin">>,
   <<"admin", "manager">>}

InheritLists ==
  {<<>>} \cup {<<r>> : r \in Roles}
         \cup ({<<r, s>> : r \in Roles, s \in Roles}
                 \ {<<r, r>> : r \in Roles})

HierarchiesOf(keyOrders, levelMaps, inheritLists) ==
  UNION {UNION {
    {[i \in 1..Len(keys) |->
        [role |-> keys[i], level |-> levels[keys[i]], inherits |-> lists[i]]] :
       lists \in [1..Len(keys) -> inheritLists]} :
    levels \in levelMaps} : keys \in keyOrders}

Hierarchies == HierarchiesOf(KeyOrders, {StandardLevels, FlatLevels}, InheritLists)

\* The permission service idle, for the specifications of the hierarchy.
InitServiceIdle ==
  /\ InitService({}, {}, Configs({1}, {TRUE}))
  /\ config.permissionStrategy = "whitelist"

InitValidate == InitServiceIdle /\ InitHierarchy({{}})

NextValidate ==
  \/ \E h \in Hierarchies : ValidateRoleHierarchy(h)
  \/ \E h \in Hierarchies : ValidateHierarchy(h)
  \/ RoleReturn

SpecValidate == InitValidate /\ [][NextValidate]_vars

\* -------------------------------------- the role tree (SpecHierarchy)
\* The permissions named after a role: one for each role and an inactive one,
\* or those of manager alone.
RolePermissionRows ==
  {[id |-> "users.manage", name |-> "admin", isActive |-> TRUE],
   [id |-> "reports.view", name |-> "manager", isActive |-> TRUE],
   [id |-> "reports.edit", name |-> "manager", isActive |-> FALSE],
   [id |-> "profile.view", name |-> "user", isActive |-> TRUE]}

RoleTables ==
  {RolePermissionRows, {p \in RolePermissionRows : p.name = "manager"}}

BuildInheritLists == {<<>>, <<"manager">>, <<"user">>, <<"manager", "user">>}

BuildHierarchies == HierarchiesOf(KeyOrders, {StandardLevels}, BuildInheritLists)

InitRoleTree == InitServiceIdle /\ InitHierarchy(RoleTables)

NextHierarchy ==
  \/ \E h \in BuildHierarchies : BuildRoleTree(h)
  \/ \E role \in Roles : GetInheritedPermissions(role)
  \/ ClearCache
  \/ RoleReturn

SpecHierarchy == InitRoleTree /\ [][NextHierarchy]_vars

\* ----------------------- builds, reads and clears in flight (SpecRebuild)
\* A chain, a role inherited twice, and a role that is not declared below a
\* root that is.
RebuildHierarchies ==
  {<< [role |-> "manager", level |-> 2, inherits |-> <<"user">>],
      [role |-> "user", level |-> 1, inherits |-> <<>>] >>,
   << [role |-> "admin", level |-> 3, inherits |-> <<"manager", "user">>],
      [role |-> "manager", level |-> 2, inherits |-> <<"user">>],
      [role |-> "user", level |-> 1, inherits |-> <<>>] >>,
   << [role |-> "admin", level |-> 3, inherits |-> <<"user", "manager">>],
      [role |-> "user", level |-> 1, inherits |-> <<>>] >>}

\* The permission of user is there or not.
RebuildTables ==
  {RolePermissionRows, {p \in RolePermissionRows : p.name # "user"}}

NextRebuild ==
  \/ \E h \in RebuildHierarchies : StartBuildRoleTree(h)
  \/ AnswerRolePermissions
  \/ ContinueBuildRoleTree
  \/ \E role \in Roles : StartGetInheritedPermissions(role)
  \/ FinishGetInheritedPermissions
  \/ ClearCache
  \/ \E table \in RebuildTables : ReplacePermissions(table)
  \/ RoleReturn

InitRebuild == InitServiceIdle /\ InitHierarchy(RebuildTables)

SpecRebuild == InitRebuild /\ [][NextRebuild]_vars

\* ------------------- getUserPermissions calls in flight (SpecInFlight)
\* One user and one grant that comes and goes, a timeout of one second.
SingleGrantRows ==
  [userId : Users, permissionId : {"p1"}, isActive : {TRUE},
   expiresAt : {NoExpiry}]

NextInFlight ==
  \/ \E slot \in Slots, u \in Users : StartGetUserPermissions(slot, u)
  \/ \E slot \in Slots : AnswerFind(slot)
  \/ \E slot \in Slots : FinishGetUserPermissions(slot)
  \/ \E u \in Users : InvalidateUserCache(u)
  \/ \E row \in SingleGrantRows : GrantsChange(row)
  \/ Return
  \/ Tick

InitInFlight ==
  /\ InitWith(SingleGrantRows, {}, CachingConfigs({1}, {TRUE}))
  /\ config.permissionStrategy = "whitelist"

SpecInFlight == InitInFlight /\ [][NextInFlight]_vars

\* ------------------------------ the decision cache (SpecDecisions)
\* One user who holds p1 or not, a route bound to p1 or not, caching on or
\* off, both strategies.
InitDecisions ==
  InitWith(SingleGrantRows,
           [route : {ProtectedRoute}, method : {"GET"},
            permissionId : {"p1"}, isActive : {TRUE}],
           CachingConfigs({1}, BOOLEAN))

NextDecisions ==
  \/ \E u \in Users, r \in Routes, m \in RequestMethods : HasPermission(u, r, m)
  \/ \E u \in Users, r \in Routes, m \in RequestMethods :
       CheckRoutePermission(2, r, m, u)
  \/ \E u \in Users : GetUserPermissions(u)
  \/ \E u \in Users : InvalidateUserCache(u)
  \/ ClearAllCache
  \/ \E row \in SingleGrantRows : WriteGrant(row)
  \/ \E row \in SingleGrantRows : DeleteGrant(row)
  \/ Return
  \/ Tick

SpecDecisions == InitDecisions /\ [][NextDecisions]_vars

\* ------------------------------------ two users compared (SpecMonotone)
\* Two users with grants of p1, p2 and the admin permission, inactive ones
\* for p1; the route bound to p1 and p2.  The clock stands still.
InitMonotone ==
  InitWith({g \in [userId : CacheUsers, permissionId : PermIds,
                   isActive : BOOLEAN, expiresAt : {NoExpiry}] :
              ~g.isActive => g.permissionId = "p1"},
           [route : {ProtectedRoute}, method : {"GET"},
            permissionId : {"p1", "p2"}, isActive : {TRUE}],
           Configs({1}, {FALSE}))

NextMonotone ==
  \/ \E svc \in Services, r \in Routes, m \in RequestMethods, u \in CacheUsers :
       CheckRoutePermission(svc, r, m, u)
  \/ \E u \in CacheUsers, required \in RequiredSets, s \in OptionStrategies :
       ValidateUserPermissions(u, required, s)
  \/ \E svc \in Services, u \in CacheUsers, required \in RequiredSets \ {{}}, s \in {"AND", "OR"} :
       CanActivateDecorator(svc, ProtectedRoute, "GET", u, required, s, "deny")
  \/ Return

SpecMonotone == InitMonotone /\ [][NextMonotone]_vars

\* =================================================================== claims
\* What the claims call things.
IsDecision(call, ops) == call.op \in ops /\ call.userId # NoUser

\* The active bindings the specification requires of a request: those of the
\* route whose method is the request's verb or the wildcard.
RequiredBindings(route, method) ==
  {b \in bindings :
     b.route = route /\ b.isActive /\ (b.method = method \/ b.method = "*")}

\* A grant counts when it is active and its expiry date has not passed.
ValidGrants(userId, at) ==
  {g \in grants :
     /\ g.userId = userId
     /\ g.isActive
     /\ (g.expiresAt = NoExpiry \/ g.expiresAt >= at)}

ActiveGrants(userId) == {g \in grants : g.userId = userId /\ g.isActive}

\* The user holds the permission named config.adminRole.
HoldsAdmin(userId) ==
  \E g \in grants :
    g.userId = userId /\ PermissionName(g.permissionId) = config.adminRole

\* C1 (as claimed): for a non-public route with no active binding for
\* (route, method), checkRoutePermission denies under 'whitelist' and allows
\* under 'blacklist'.
C1_StrategyBoundary ==
  (/\ lastCall.op = "checkRoutePermission"
   /\ ~IsPublic(lastCall.route)
   /\ RequiredBindings(lastCall.route, lastCall.method) = {})
  => (lastCall.result = (config.permissionStrategy = "blacklist"))

\* C2 (as claimed): on a public route checkRoutePermission and both guards
\* allow every request, authenticated or not, and return before any store
\* read and before any access to the permission cache.
C2_PublicRouteAllowsAtOnce ==
  (/\ lastCall.op \in {"checkRoutePermission", "canActivate",
                       "canActivateDecorator"}
   /\ IsPublic(lastCall.route))
  => /\ lastCall.result = TRUE
     /\ lastCall.bindingReads = 0
     /\ lastCall.grantReads = 0
     /\ ~lastCall.cacheAccess

\* C3 (as claimed): for an authenticated user on a non-public route the
\* binding-driven guard allows, when the route has no active binding for
\* (route, method), iff the strategy is 'blacklist', and otherwise iff the
\* user's active grants hold the permission of every such binding.
C3_BindingGuardDecision ==
  (/\ IsDecision(lastCall, {"canActivate"})
   /\ ~IsPublic(lastCall.route))
  => LET required == {b \in bindings :
                        /\ b.route = lastCall.route
                        /\ b.method = lastCall.method
                        /\ b.isActive}
         held == {g.permissionId : g \in ActiveGrants(lastCall.userId)}
     IN lastCall.result =
          IF required = {} THEN config.permissionStrategy = "blacklist"
          ELSE \A b \in required : b.permissionId \in held

\* C5 (as claimed): a user holding the permission named adminRole is allowed
\* by PermissionsGuard.canActivate on every non-public route, whatever the
\* bindings and the required names, and no route binding is read.
C5_AdminBypass ==
  (/\ IsDecision(lastCall, {"canActivate", "canActivateDecorator"})
   /\ ~IsPublic(lastCall.route)
   /\ HoldsAdmin(lastCall.userId))
  => lastCall.result = TRUE /\ lastCall.bindingReads = 0

\* The route-binding decision of the specification: no binding, the strategy
\* decides; bindings, the user must hold every bound permission.
RouteBindingDecision(route, method, userId) ==
  LET required == RequiredBindings(route, method)
      held == {g.permissionId : g \in ActiveGrants(userId)}
  IN IF required = {} THEN config.permissionStrategy = "blacklist"
     ELSE \A b \in required : b.permissionId \in held

\* C6 (as claimed): with no required permission names on the endpoint, the
\* decorator-driven guard decides as the route bindings do.
C6_EmptyNamesUseBindings ==
  (/\ IsDecision(lastCall, {"canActivateDecorator"})
   /\ lastCall.required = {}
   /\ ~IsPublic(lastCall.route)
   /\ ~HoldsAdmin(lastCall.userId))
  => lastCall.result =
       RouteBindingDecision(lastCall.route, lastCall.method, lastCall.userId)

\* The names of the permissions getUserPermissions yields for the user.
HeldNames(userId) ==
  {PermissionName(g.permissionId) : g \in {x \in grants : x.userId = userId}}

\* The explicit-name gate: every name under AND (the default), one under OR.
NameGate(required, strategy, names) ==
  IF strategy = "OR" THEN required \cap names # {}
  ELSE required \subseteq names

\* C7: with required names declared, the decorator-driven guard allows a
\* non-admin authenticated user exactly when checkRoutePermission(route,
\* method, userId) returns true and the explicit-name gate passes; failing
\* either gate denies.
C7_BothGates ==
  (/\ IsDecision(lastCall, {"canActivateDecorator"})
   /\ lastCall.required # {}
   /\ ~HoldsAdmin(lastCall.userId))
  => lastCall.result =
       (/\ RoutePermission(lastCall.svc, permissionCache, lastCall.route,
                           lastCall.method, lastCall.userId).result
        /\ NameGate(lastCall.required, lastCall.strategy,
                    HeldNames(lastCall.userId)))

\* A denial by each gate alone, and an allow, have been seen.
C7_Witness ==
  /\ IsDecision(lastCall, {"canActivateDecorator"})
  /\ lastCall.required = {"a", "b"}
  /\ lastCall.strategy = "AND"
  /\ ~HoldsAdmin(lastCall.userId)
  /\ HeldNames(lastCall.userId) = {"a"}
  /\ RoutePermission(lastCall.svc, permissionCache, lastCall.route,
                     lastCall.method, lastCall.userId).result
  /\ lastCall.result = FALSE

\* C8 (as claimed): an active binding of the route whose method is the
\* request's verb or '*' is required: a user without the bound permission, and
\* without the admin permission, is denied by the binding-driven guard and by
\* checkRoutePermission under both strategies.
C8_VerbAndWildcardBindings ==
  (/\ IsDecision(lastCall, {"canActivate", "checkRoutePermission"})
   /\ ~IsPublic(lastCall.route)
   /\ ~HoldsAdmin(lastCall.userId)
   /\ \E b \in RequiredBindings(lastCall.route, lastCall.method) :
        \A g \in grants :
          g.userId = lastCall.userId => g.permissionId # b.permissionId)
  => lastCall.result = FALSE

\* C9: validateUserPermissions returns, under AND and with no strategy, whether
\* every required name is the name of a permission of the user's list, and
\* under OR whether one is; names are compared, not ids.  {a} against {a, b}
\* is false under AND and true under OR; nothing required is true under AND
\* and false under OR.
C9_ValidateByName ==
  lastCall.op = "validateUserPermissions"
  => LET names == {p.name : p \in lastCall.permissions}
     IN /\ lastCall.permissions = GupPermissions(permissionCache,
                                                 lastCall.userId)
        /\ lastCall.strategy = "OR"
             => lastCall.result = (lastCall.required \cap names # {})
        /\ lastCall.strategy \in {"AND", "none"}
             => lastCall.result = (lastCall.required \subseteq names)
        /\ (names = {"a"} /\ lastCall.required = {"a", "b"})
             => lastCall.result = (lastCall.strategy = "OR")
        /\ lastCall.required = {}
             => lastCall.result = (lastCall.strategy # "OR")

C9_Witness ==
  /\ lastCall.op = "validateUserPermissions"
  /\ {p.name : p \in lastCall.permissions} = {"a"}
  /\ lastCall.required = {"a", "b"}
  /\ lastCall.strategy = "OR"
  /\ lastCall.result = TRUE

\* C4 (as claimed): a grant that is inactive, or whose expiry date has passed,
\* adds nothing: getUserPermissions lists only permissions held through a
\* valid grant, and validateUserPermissions and checkRoutePermission allow only
\* what the valid grants alone justify.
C4_InvalidGrantsDoNotCount ==
  LET valid == {g.permissionId :
                  g \in ValidGrants(lastCall.userId, lastCall.at)}
  IN /\ lastCall.op = "getUserPermissions"
          => \A p \in lastCall.permissions : p.id \in valid
     /\ (lastCall.op = "validateUserPermissions" /\ lastCall.result)
          => NameGate(lastCall.required, lastCall.strategy,
                      {PermissionName(id) : id \in valid})
     /\ (/\ lastCall.op = "checkRoutePermission"
         /\ lastCall.result
         /\ ~IsPublic(lastCall.route))
          => \A b \in FindRouterPermissions(lastCall.route, lastCall.method) :
               b.permissionId \in valid

\* The time the cache entry carries after the first i logged calls: that of
\* the last call that read the store.
StampAfter(i) ==
  LET misses == {j \in 1..i : callLog[j].grantReads = 1}
  IN callLog[CHOOSE j \in misses : \A k \in misses : k <= j].at

\* C10: the first getUserPermissions(u) reads the store once; a call made less
\* than cacheTimeout seconds after the entry was stamped reads nothing and
\* returns the cached list, so two calls within the timeout cost one read; a
\* call made once the timeout has elapsed reads the store exactly once and
\* stamps the entry anew.
C10_OneReadPerTimeout ==
  \A i \in 1..Len(callLog) :
    LET call == callLog[i]
    IN /\ i = 1 => call.grantReads = 1
       /\ i > 1 =>
            IF call.at - StampAfter(i - 1) < config.cacheTimeout * 1000
            THEN /\ call.grantReads = 0
                 /\ call.permissions = callLog[i - 1].permissions
            ELSE call.grantReads = 1
       /\ i = Len(callLog) =>
            permissionCache[call.userId].timestamp = StampAfter(i)

\* A miss, a hit within the timeout, and a miss once the timeout has elapsed.
C10_Witness ==
  /\ Len(callLog) = 3
  /\ config.cacheTimeout = 1
  /\ callLog[1].grantReads = 1 /\ callLog[1].at = 0
  /\ callLog[2].grantReads = 0 /\ callLog[2].at = TickMs
  /\ callLog[2].permissions # {}
  /\ callLog[3].grantReads = 1 /\ callLog[3].at = 2 * TickMs
  /\ permissionCache["u1"].timestamp = 2 * TickMs

\* The grants the store holds for the user, as getUserPermissions maps them.
CurrentGrants(userId) ==
  {PermissionOf(g.permissionId) : g \in {x \in grants : x.userId = userId}}

\* The logged calls before the i-th that touch the user's cache entry.
CallsAbout(userId, i) ==
  {j \in 1..(i - 1) :
     callLog[j].op = "clearAllCache" \/ callLog[j].userId = userId}

ReadRejected(call) ==
  \/ call.bindingReads > 0 /\ "router_permissions" \in rejecting
  \/ call.grantReads > 0 /\ "user_permissions" \in rejecting

\* C12: when a store read fails during getUserPermissions,
\* validateUserPermissions or checkRoutePermission, the call ends in the
\* store's error, not in a decision or a list, and the permission cache is
\* what it was before the call.
C12_StoreFailureReachesCaller ==
  [][(/\ lastCall'.op \in {"getUserPermissions", "validateUserPermissions",
                           "checkRoutePermission"}
      /\ ReadRejected(lastCall'))
     => (/\ lastCall'.error = "StoreError"
         /\ permissionCache' = permissionCache)]_vars

\* The cached list has timed out, the read that would replace it is rejected,
\* and the entry is still there.
C12_Witness ==
  /\ lastCall.op = "checkRoutePermission"
  /\ lastCall.svc = 2
  /\ lastCall.error = "StoreError"
  /\ lastCall.bindingReads = 1
  /\ lastCall.grantReads = 1
  /\ permissionCache[lastCall.userId].timestamp = 0
  /\ permissionCache[lastCall.userId].permissions # {}
  /\ now = 2 * TickMs

\* C13 (as claimed): while only the audit sink rejects, checkRoutePermission
\* and the binding-driven guard return their decision and raise nothing.
C13_AuditFailureIsHarmless ==
  (/\ lastCall.op \in {"checkRoutePermission", "canActivate"}
   /\ rejecting \subseteq {"audit_logs"})
  => lastCall.error = "none"

\* C14 (as claimed): a decision of checkRoutePermission or the binding-driven
\* guard on a non-public route leaves exactly one 'check' audit row with the
\* user, the route and the decision when enableAuditLog is true, and no row
\* when it is false.
C14_EveryDecisionAudited ==
  (/\ IsDecision(lastCall, {"checkRoutePermission", "canActivate"})
   /\ lastCall.error = "none"
   /\ ~IsPublic(lastCall.route))
  => IF config.enableAuditLog
     THEN /\ Len(lastCall.audits) = 1
          /\ lastCall.audits[1].action = "check"
          /\ lastCall.audits[1].userId = lastCall.userId
          /\ lastCall.audits[1].target = lastCall.route
          /\ lastCall.audits[1].result = lastCall.result
     ELSE lastCall.audits = <<>>

\* ------------------------------------------ claims about the hierarchy
DeclaredRoles(hierarchy) == {hierarchy[i].role : i \in 1..Len(hierarchy)}

\* The inherits edges <<parent, child>>.
EdgeSet(hierarchy) ==
  UNION {{<<hierarchy[i].role, hierarchy[i].inherits[j]>> :
            j \in 1..Len(hierarchy[i].inherits)} : i \in 1..Len(hierarchy)}

\* The roles reachable from a set of roles through inherits edges.
RECURSIVE Below(_, _)
Below(hierarchy, S) ==
  LET next == S \cup {e[2] : e \in {x \in EdgeSet(hierarchy) : x[1] \in S}}
  IN IF next = S THEN S ELSE Below(hierarchy, next)

Descendants(hierarchy, role) ==
  Below(hierarchy, {e[2] : e \in {x \in EdgeSet(hierarchy) : x[1] = role}})

LevelOf(hierarchy, role) ==
  (CHOOSE e \in {hierarchy[i] : i \in 1..Len(hierarchy)} : e.role = role).level

Acyclic(hierarchy) ==
  \A role \in DeclaredRoles(hierarchy) : role \notin Descendants(hierarchy, role)

LevelConsistent(hierarchy) ==
  \A e \in EdgeSet(hierarchy) :
    /\ e[2] \in DeclaredRoles(hierarchy)
    /\ LevelOf(hierarchy, e[2]) < LevelOf(hierarchy, e[1])

WellFormed(hierarchy) == Acyclic(hierarchy) /\ LevelConsistent(hierarchy)

Offending(hierarchy, e) ==
  \/ e[1] \in {e[2]} \cup Descendants(hierarchy, e[2])
  \/ e[2] \notin DeclaredRoles(hierarchy)
  \/ LevelOf(hierarchy, e[2]) >= LevelOf(hierarchy, e[1])

\* C16 (as claimed): every rejection by hierarchy validation is an error that
\* names the two roles of an offending edge.
C16_RejectionNamesEdge ==
  (/\ roleCall.op \in {"validateRoleHierarchy", "validateHierarchy"}
   /\ ~(roleCall.result /\ roleCall.error = "none"))
  => /\ roleCall.error # "none"
     /\ \E e \in EdgeSet(roleCall.hierarchy) :
          /\ Offending(roleCall.hierarchy, e)
          /\ roleCall.names = {e[1], e[2]}

\* The ids of the active permissions assigned to (named after) a role.
OwnPermissions(role) ==
  {p.id : p \in {x \in permissionRows : x.name = role /\ x.isActive}}

\* C17 (as claimed): once buildRoleTree(h) has built a well-formed hierarchy,
\* getInheritedPermissions(r) resolves, for every role r of h, exactly the
\* permissions assigned to r and to the roles reachable from r through
\* inherits edges.
C17_InheritedIsUnionBelow ==
  (/\ roleCall.op = "buildRoleTree"
   /\ roleCall.error = "none"
   /\ WellFormed(roleCall.hierarchy))
  => \A role \in DeclaredRoles(roleCall.hierarchy) :
       /\ InheritedPermissions(roleTree, role).error = "none"
       /\ InheritedPermissions(roleTree, role).permissions =
            UNION {OwnPermissions(r) :
                     r \in {role} \cup Descendants(roleCall.hierarchy, role)}

\* The roles that appear in no inherits list.
Roots(hierarchy) ==
  {role \in DeclaredRoles(hierarchy) :
     \A e \in EdgeSet(hierarchy) : e[2] # role}

\* C18 (as claimed): buildRoleTree on a hierarchy with more than one root
\* fails with an error and installs no tree.
C18_ManyRootsRefused ==
  [][(/\ roleCall'.op = "buildRoleTree"
      /\ Cardinality(Roots(roleCall'.hierarchy)) > 1)
     => (roleCall'.error # "none" /\ roleTree' = roleTree)]_vars

\* C19 (as claimed): buildRoleTree on a hierarchy that fails validation (a
\* cycle, a child level not below its parent's, an edge to a role that is not
\* declared, no root) ends in an error and roleTree keeps its value.
C19_InvalidHierarchyNotInstalled ==
  [][(/\ roleCall'.op = "buildRoleTree"
      /\ \/ ~WellFormed(roleCall'.hierarchy)
         \/ Roots(roleCall'.hierarchy) = {})
     => (roleCall'.error # "none" /\ roleTree' = roleTree)]_vars

\* The roles of the nodes of the tree.
RECURSIVE RolesOf(_)
RolesOf(node) ==
  {node.role}
    \cup UNION {RolesOf(node.children[i]) : i \in 1..Len(node.children)}

TreeRoles(tree) == IF tree = <<>> THEN {} ELSE RolesOf(tree[1])

\* C20: getInheritedPermissions(role) raises 'not initialized' when no tree is
\* built and 'Role not found' when the role is not a node of the built tree;
\* it returns no list, issues no store read, and leaves the tree and the
\* per-role cache as they were.
C20_UnknownRoleRaises ==
  [][(/\ roleCall'.op = "getInheritedPermissions"
      /\ roleCall'.role \notin TreeRoles(roleTree))
     => (/\ roleCall'.error =
              IF roleTree = <<>> THEN "Role hierarchy not initialized"
              ELSE "Role not found"
         /\ ~roleCall'.result
         /\ roleCall'.reads = 0
         /\ roleTree' = roleTree
         /\ rolePermissions' = rolePermissions)]_vars

\* A tree is built and the role asked for is not one of its nodes.
C20_Witness ==
  /\ roleCall.op = "getInheritedPermissions"
  /\ roleTree # <<>>
  /\ rolePermissions # <<>>
  /\ roleCall.role \notin TreeRoles(roleTree)
  /\ roleCall.error = "Role not found"

\* C21: after clearCache, and until a buildRoleTree call that started after
\* it has completed, the tree is absent, getInheritedPermissions fails as
\* not initialized for every role, and rolePermissions holds no set written
\* by a call that started before the clear.
C21_ClearedUntilRebuilt ==
  origin.sinceClear = "cleared" =>
    /\ roleTree = <<>>
    /\ \A role \in Roles :
         InheritedPermissions(roleTree, role).error
           = "Role hierarchy not initialized"
    /\ DOMAIN rolePermissions \cap origin.staleRoles = {}

\* C22: a role whose permissions were resolved since the last clearCache is
\* resolved from rolePermissions afterwards: no repository call is awaited
\* for it (findByIds of no ids asks the store nothing).
C22_CachedRoleNotReadAgain ==
  building.phase = "reading" /\ building.cached # <<>> =>
    building.cached[1] = {}

\* What the store can answer for the permissions of a role: its active rows
\* by name in one table, or the rows of a table whose ids such an answer held.
AnswersFor ==
  [role \in Roles |->
     LET byName(t) == {p.id : p \in {x \in t : x.name = role /\ x.isActive}}
     IN {byName(t) : t \in RebuildTables}
          \cup {{p.id : p \in {x \in u : x.id \in byName(t)}} :
                  t \in RebuildTables, u \in RebuildTables}]

\* A node without the permission sets: its role, level and children.
RECURSIVE Shape(_)
Shape(node) ==
  [role |-> node.role, level |-> node.level,
   children |-> [i \in 1..Len(node.children) |-> Shape(node.children[i])]]

\* Every declared edge below a role, as a shape.
RECURSIVE ShapeBelow(_, _)
ShapeBelow(hierarchy, role) ==
  [role |-> role, level |-> LevelOf(hierarchy, role),
   children |-> [i \in 1..Len(Inherits(hierarchy, role)) |->
                   ShapeBelow(hierarchy, Inherits(hierarchy, role)[i])]]

\* The shapes of the hierarchies that can be built to the end.
WholeShapes ==
  {ShapeBelow(h, RootRoles(h)[1]) :
     h \in {g \in RebuildHierarchies :
              Resolutions(RootRoles(g)[1], g, 1).error = "none"}}

\* The nodes of a tree, each as its role and its permission set.
RECURSIVE NodeSets(_)
NodeSets(node) ==
  {<<node.role, node.permissions>>}
    \cup UNION {NodeSets(node.children[i]) : i \in 1..Len(node.children)}

\* A tree as one buildRoleTree call builds it to the end: every declared
\* edge below the root is there, and every node holds a set that
\* getRolePermissions resolved for its role.
CompleteTree(tree) ==
  /\ Shape(tree[1]) \in WholeShapes
  /\ \A n \in NodeSets(tree[1]) : n[2] \in AnswersFor[n[1]]

\* C23: a getInheritedPermissions call in flight holds the ids of one whole
\* tree, the one installed when it started, whatever buildRoleTree and
\* clearCache do meanwhile; the installed tree is never a partly built one;
\* and a buildRoleTree that ends in an error leaves roleTree as it was.
C23_ReadersSeeWholeTrees ==
  [][/\ (inheriting' # inheriting /\ inheriting'.phase = "reading") =>
          /\ CompleteTree(inheriting'.tree)
          /\ inheriting'.ids
               = CollectPermissions(FindRoleNode(inheriting'.tree[1],
                                                 inheriting'.role)[1])
     /\ (roleTree' # roleTree /\ roleTree' # <<>>) => CompleteTree(roleTree')
     /\ (roleCall' # roleCall /\ roleCall'.op = "buildRoleTree"
           /\ roleCall'.error # "none") => roleTree' = roleTree]_vars

\* A read in flight while a later build is in flight and the tree it read
\* has been replaced or dropped.
C23_Witness ==
  /\ inheriting.phase = "reading"
  /\ building.phase = "answered"
  /\ building.resolved # <<>>
  /\ roleTree # inheriting.tree

\* C24: getUserPermissions serves the cached entry exactly when
\* now - timestamp < cacheTimeout * 1000: a call made exactly cacheTimeout
\* seconds after the entry was stamped reads the store, and with a timeout
\* of 0 every call reads the store.
C24_ServedIffWithinTimeout ==
  \A i \in 1..Len(callLog) :
    LET call == callLog[i]
    IN /\ call.grantReads = 0 <=>
            (i > 1 /\ call.at - StampAfter(i - 1) < config.cacheTimeout * 1000)
       /\ (i > 1 /\ call.at - StampAfter(i - 1) = config.cacheTimeout * 1000)
            => call.grantReads = 1
       /\ config.cacheTimeout = 0 => call.grantReads = 1

\* A call made exactly cacheTimeout seconds after the entry was stamped, with
\* no call in between: it read the store.
C24_Witness ==
  /\ Len(callLog) = 2
  /\ config.cacheTimeout = 1
  /\ callLog[1].at = 0
  /\ callLog[2].at = 1000
  /\ callLog[2].grantReads = 1
  /\ callLog[2].permissions # {}

\* C25: when invalidateUserCache(u) has completed, a getUserPermissions(u)
\* call that starts afterwards returns no list that the store gave before
\* the invalidation: the list it finds cached was not written by a call whose
\* find had been answered before the invalidation.
C25_NoListFromBeforeInvalidation ==
  (/\ ~Idle
   /\ lastCall.op = "getUserPermissions"
   /\ lastCall.error = "none"
   /\ lastCall.grantReads = 0)
  => lastCall.userId \notin provenance.staleUsers

\* C26: when the grants of a user last changed at t0, a getUserPermissions
\* call that starts cacheTimeout seconds after t0 or later returns the
\* grants the store holds, whether it finds a cached list or awaits the find.
C26_StaleForAtMostTheTimeout ==
  /\ (/\ ~Idle
      /\ lastCall.op = "getUserPermissions"
      /\ lastCall.error = "none"
      /\ lastCall.grantReads = 0
      /\ provenance.changedAt[lastCall.userId] # NoExpiry
      /\ lastCall.at >= provenance.changedAt[lastCall.userId]
                          + config.cacheTimeout * 1000)
     => lastCall.permissions = CurrentGrants(lastCall.userId)
  /\ \A slot \in Slots :
       (/\ pending[slot].phase = "answered"
        /\ provenance.changedAt[pending[slot].userId] # NoExpiry
        /\ pending[slot].startedAt
             >= provenance.changedAt[pending[slot].userId]
                  + config.cacheTimeout * 1000)
       => pending[slot].rows = CurrentGrants(pending[slot].userId)

\* A hasPermission call that returned what it found in its cache.
ServedDecision(call) ==
  call.op = "hasPermission" /\ call.error = "none" /\ ~call.cacheAccess

\* C27: after invalidateUserCache(u) or clearAllCache(), hasPermission(u,
\* route, method) decides from the store: it returns no decision that was
\* cached before the invalidation.
C27_NoDecisionFromBeforeInvalidation ==
  (~Idle /\ ServedDecision(lastCall))
  => CacheKey(lastCall.userId, lastCall.route, lastCall.method)
       \notin provenance.staleKeys

\* No list and no decision cached.
NoCache == [u \in CacheUsers |-> NoEntry]

\* C28: with nothing cached, hasPermission(userId, route, method) and
\* checkRoutePermission(route, method, userId) give the same decision on
\* every route that is not public, for the grants, bindings and strategy of
\* the state.
C28_SameDecisionAsCheckRoutePermission ==
  \A u \in Users, r \in Routes \ config.publicRoutes, m \in RequestMethods :
    LET has == HasPermissionOutcome(<<>>, NoCache, u, r, m)
        check == RoutePermissionCached(NoCache, r, m, u)
    IN /\ has.error = check.error
       /\ has.result = check.result

\* C29: with security.enableCaching false, permissionCache and the decision
\* cache stay empty, every getUserPermissions call reads the grants and no
\* hasPermission call returns a cached decision.
C29_NothingCachedWhenDisabled ==
  ~config.enableCaching =>
    /\ permissionCache = NoCache
    /\ decisionCache = <<>>
    /\ (~Idle /\ lastCall.op = "getUserPermissions") => lastCall.grantReads = 1
    /\ ~(~Idle /\ ServedDecision(lastCall))

\* The permissions a user holds through grants that count.
HeldValid(userId) == {g.permissionId : g \in ValidGrants(userId, now)}

\* What the call just made gives when another user makes it.
SameCallBy(userId) ==
  CASE lastCall.op = "checkRoutePermission" ->
         RoutePermission(lastCall.svc, permissionCache, lastCall.route,
                         lastCall.method, userId).result
    [] lastCall.op = "validateUserPermissions" ->
         MatchNames(lastCall.required, lastCall.strategy,
                    GupPermissions(permissionCache, userId))
    [] OTHER ->
         DecoratorGuardOutcome(lastCall.svc, lastCall.route, lastCall.method,
                               userId, lastCall.required, lastCall.strategy,
                               lastCall.fallback).result

\* C30: when checkRoutePermission, validateUserPermissions or the decorator
\* guard allows a user, the same call allows every user whose active grants
\* include those of the first.
C30_MoreGrantsNeverLessAccess ==
  (/\ ~Idle
   /\ lastCall.op \in {"checkRoutePermission", "validateUserPermissions",
                       "canActivateDecorator"}
   /\ lastCall.error = "none"
   /\ lastCall.result)
  => \A u \in CacheUsers :
       HeldValid(lastCall.userId) \subseteq HeldValid(u) => SameCallBy(u)
====
